---------------------------- MODULE Spec2Model ----------------------------
(***************************************************************************)
(* A model of oytr (src/src/main.rs): a reminder scheduler.  One process   *)
(* runs at a time.  A CRUD invocation (add, list, remove) loads the        *)
(* configuration file, acts and exits.  An invocation without a subcommand *)
(* loads the file and enters the watch loop, which recomputes for every    *)
(* reminder the second occurrence of its schedule after the current time   *)
(* and shows a notification when that value differs from the cached one.   *)
(*                                                                         *)
(* Time is counted in seconds from an origin.  Option<T> is modelled as a  *)
(* set with at most one element.  Positions are 0-based as in the program; *)
(* the sequences of the model are 1-based, so position p is element p + 1. *)
(***************************************************************************)
EXTENDS Integers, Sequences, FiniteSets, TLC

\* ------------------------------------------------------------------ bounds

\* The largest number of reminders the configuration file holds.
MaxReminders == 3

\* The last clock reading of a run.
MaxTime == 3

\* Later than every occurrence the clock can reach: every periodic schedule
\* below has at least two occurrences after MaxTime and up to Horizon.
Horizon == MaxTime + 4

\* ----------------------------------------------------------------- Option

None == {}

Some(x) == {x}

\* -------------------------------------------------------------- schedules

\* The schedule expressions given on the command line: two periodic ones
\* (every second, every other second), one with a year field, which has
\* finitely many occurrences (seconds 1 and 2 of the first minute of the
\* year of the origin of time), and one that does not parse.
EverySecond == "* * * * * *"

EveryTwo == "*/2 * * * * *"

TwiceOnly == "1,2 0 0 1 1 * 1970"

Unparsable == "every day"

Exprs == {EverySecond, EveryTwo, TwiceOnly, Unparsable}

\* Schedule::from_str succeeds.
ParseOk(expr) == expr \in {EverySecond, EveryTwo, TwiceOnly}

\* The occurrence instants of a parsed schedule.
Occurrences(expr) ==
    CASE expr = EverySecond -> 0..Horizon
      [] expr = EveryTwo -> {t \in 0..Horizon : t % 2 = 0}
      [] expr = TwiceOnly -> {1, 2}
      [] OTHER -> {}

\* Mutant of Upcoming: the current instant counts as upcoming.
UpcomingInclusive(expr, now) == {t \in Occurrences(expr) : t >= now}

\* Schedule::upcoming(Local): the occurrences strictly after the current time,
\* in ascending order (as the set the iterator enumerates).
Upcoming(expr, now) == {t \in Occurrences(expr) : t > now}

Earliest(S) == CHOOSE x \in S : \A y \in S : x <= y

\* Iterator::nth(n) over an ascending enumeration of S.
RECURSIVE Nth(_, _)
Nth(S, n) ==
    IF S = {} THEN None
    ELSE IF n = 0 THEN Some(Earliest(S))
    ELSE Nth(S \ {Earliest(S)}, n - 1)

\* Mutant of Candidate: the next occurrence (nth(0)) is cached.
CandidateNext(expr, now) == Nth(Upcoming(expr, now), 0)

\* Line 179: (*reminder.schedule).upcoming(Local).nth(1).
Candidate(expr, now) == Nth(Upcoming(expr, now), 1)

\* --------------------------------------------------------------- reminders

Summaries == {"s1"}

Descriptions == {"d1"}

\* The Reminder built by the command line parser for `add`: id and upcoming
\* are skipped arguments and take their default.
NewReminder(s, d, e) ==
    [id |-> None, summary |-> s, description |-> d, schedule |-> e,
     upcoming |-> None]

\* What serde writes of a reminder: upcoming is skipped.
Serialize(r) == [r EXCEPT !.upcoming = None]

\* Mutant of Deserialize: upcoming is read as the origin of time.
DeserializeEpoch(r) == [r EXCEPT !.upcoming = Some(0)]

\* What serde reads of a stored reminder: upcoming takes its default.
Deserialize(r) == [r EXCEPT !.upcoming = None]

\* confy::store_path(path, cfg).
StorePath(c) == [i \in 1..Len(c) |-> Serialize(c[i])]

\* Mutant of LoadOk: a stored schedule that does not parse is loaded as it
\* is, and the load succeeds.
LoadOkUnchecked(st) == TRUE

\* confy::load_path(path): fails when a stored schedule does not parse.
LoadOk(st) == \A i \in 1..Len(st) : ParseOk(st[i].schedule)

LoadPath(st) == [i \in 1..Len(st) |-> Deserialize(st[i])]

\* Vec::remove(index) panics unless index < len.
InRange(c, id) == id < Len(c)

\* Mutant of VecRemove: Vec::swap_remove, the last element takes the place.
VecSwapRemove(c, id) ==
    [i \in 1..(Len(c) - 1) |-> IF i = id + 1 THEN c[Len(c)] ELSE c[i]]

\* Vec::remove(index) for a valid index: the vector without that position.
VecRemove(c, id) ==
    [i \in 1..(Len(c) - 1) |-> IF i < id + 1 THEN c[i] ELSE c[i + 1]]

\* Lines 158-166: every reminder cloned with id = Some(position).
Listing(c) == [i \in 1..Len(c) |-> [c[i] EXCEPT !.id = Some(i - 1)]]

\* ------------------------------------------------------------------- state

VARIABLES
    store,   \* the configuration file: a sequence of serialized reminders
    clock,   \* the wall clock
    mode,    \* "idle": no process runs; "watch": the watch loop runs
    pc,      \* in the watch loop: "loop" (at line 178), "show" (at line 188)
    cfg,     \* the watch process's in-memory Config.reminders
    pos,     \* the index (1-based) of the reminder the for loop is at
    notes,   \* per reminder, the notifications the running loop has shown
    hist,    \* per reminder: the times of its priming tick and its last
             \* tick, and whether a tick of it found that two or more
             \* occurrences had passed since the tick before
    cmd,     \* the command line of the last invocation: the subcommand, the
             \* id of `remove`, the schedule expression of `add`
    exit,    \* how the last process ended
    out      \* what the last CRUD invocation printed

vars == <<store, clock, mode, pc, cfg, pos, notes, hist, cmd, exit, out>>

NoExit == [code |-> 0, err |-> "running"]

\* A configuration file written by hand, one of whose schedules does not
\* parse (lines 86-103 reject it when the file is loaded).
BrokenStore ==
    <<Serialize(NewReminder("s1", "d1", EverySecond)),
      Serialize(NewReminder("s1", "d1", Unparsable))>>

\* A configuration file written by hand (or pasted from the output of `list`,
\* which has the format of the file) whose reminder has an id key: the field
\* id of lines 116-117 is read and written by serde like any other.
TaggedStore ==
    <<[Serialize(NewReminder("s1", "d1", EverySecond)) EXCEPT !.id = Some(1)]>>

\* The configuration file before the first invocation: empty (confy's
\* default Config), or written by hand.
InitialStores == {<<>>, BrokenStore, TaggedStore}

Init ==
    /\ store \in InitialStores
    /\ clock = 0
    /\ mode = "idle"
    /\ pc = "loop"
    /\ cfg = <<>>
    /\ pos = 1
    /\ notes = <<>>
    /\ hist = <<>>
    /\ cmd = [name |-> "none", id |-> 0, schedule |-> ""]
    /\ exit = [code |-> 0, err |-> "none"]
    /\ out = <<>>

watchVars == <<mode, pc, cfg, pos, notes, hist>>

\* ------------------------------------------------------------ the commands

\* `oytr add <summary> <description> <schedule>`, lines 143-152.
Add ==
    /\ mode = "idle"
    /\ \E s \in Summaries, d \in Descriptions, e \in Exprs :
        /\ cmd' = [name |-> "add", id |-> 0, schedule |-> e]
        /\ IF ~ParseOk(e)
           THEN \* Cli::parse rejects the schedule argument
                /\ exit' = [code |-> 2, err |-> "ScheduleParseError"]
                /\ out' = <<>>
                /\ UNCHANGED store
           ELSE IF ~LoadOk(store)
           THEN /\ exit' = [code |-> 1, err |-> "ConfigError"]
                /\ out' = <<>>
                /\ UNCHANGED store
           ELSE /\ Len(store) < MaxReminders
                /\ store' = StorePath(Append(LoadPath(store),
                                             NewReminder(s, d, e)))
                /\ out' = <<Serialize(NewReminder(s, d, e))>>
                /\ exit' = [code |-> 0, err |-> "none"]
    /\ UNCHANGED <<clock, watchVars>>

\* Mutant of List: the tagged listing is saved as the configuration file.
ListPersisting ==
    /\ mode = "idle"
    /\ cmd' = [name |-> "list", id |-> 0, schedule |-> ""]
    /\ IF ~LoadOk(store)
       THEN /\ exit' = [code |-> 1, err |-> "ConfigError"]
            /\ out' = <<>>
            /\ UNCHANGED store
       ELSE /\ out' = StorePath(Listing(LoadPath(store)))
            /\ store' = StorePath(Listing(LoadPath(store)))
            /\ exit' = [code |-> 0, err |-> "none"]
    /\ UNCHANGED <<clock, watchVars>>

\* `oytr list`, lines 143-168.
List ==
    /\ mode = "idle"
    /\ cmd' = [name |-> "list", id |-> 0, schedule |-> ""]
    /\ IF ~LoadOk(store)
       THEN /\ exit' = [code |-> 1, err |-> "ConfigError"]
            /\ out' = <<>>
       ELSE /\ out' = StorePath(Listing(LoadPath(store)))
            /\ exit' = [code |-> 0, err |-> "none"]
    /\ UNCHANGED <<store, clock, watchVars>>

\* Mutant of Remove: an index past the end is ignored, the store saved as it
\* is and the invocation succeeds.
RemoveLenient ==
    /\ mode = "idle"
    /\ \E id \in 0..MaxReminders :
        /\ cmd' = [name |-> "remove", id |-> id, schedule |-> ""]
        /\ IF ~LoadOk(store)
           THEN /\ exit' = [code |-> 1, err |-> "ConfigError"]
                /\ out' = <<>>
                /\ UNCHANGED store
           ELSE IF ~InRange(LoadPath(store), id)
           THEN /\ exit' = [code |-> 0, err |-> "none"]
                /\ out' = <<>>
                /\ store' = StorePath(LoadPath(store))
           ELSE /\ out' = <<Serialize(LoadPath(store)[id + 1])>>
                /\ store' = StorePath(VecRemove(LoadPath(store), id))
                /\ exit' = [code |-> 0, err |-> "none"]
    /\ UNCHANGED <<clock, watchVars>>

\* `oytr remove <id>`, lines 143-173.  Vec::remove panics when id is not a
\* position of the vector; a panic ends the process with code 101.
Remove ==
    /\ mode = "idle"
    /\ \E id \in 0..MaxReminders :
        /\ cmd' = [name |-> "remove", id |-> id, schedule |-> ""]
        /\ IF ~LoadOk(store)
           THEN /\ exit' = [code |-> 1, err |-> "ConfigError"]
                /\ out' = <<>>
                /\ UNCHANGED store
           ELSE IF ~InRange(LoadPath(store), id)
           THEN /\ exit' = [code |-> 101, err |-> "IndexOutOfRange"]
                /\ out' = <<>>
                /\ UNCHANGED store
           ELSE /\ out' = <<Serialize(LoadPath(store)[id + 1])>>
                /\ store' = StorePath(VecRemove(LoadPath(store), id))
                /\ exit' = [code |-> 0, err |-> "none"]
    /\ UNCHANGED <<clock, watchVars>>

\* ---------------------------------------------------------- the watch loop

\* `oytr` without a subcommand, lines 143-176: load, set the handler, loop.
StartWatch ==
    /\ mode = "idle"
    /\ cmd' = [name |-> "watch", id |-> 0, schedule |-> ""]
    /\ out' = <<>>
    /\ IF ~LoadOk(store)
       THEN /\ exit' = [code |-> 1, err |-> "ConfigError"]
            /\ UNCHANGED watchVars
       ELSE /\ mode' = "watch"
            /\ pc' = "loop"
            /\ cfg' = LoadPath(store)
            /\ pos' = 1
            /\ notes' = [i \in 1..Len(store) |-> <<>>]
            /\ hist' = [i \in 1..Len(store) |->
                          [primedAt |-> None, lastTick |-> None,
                           coalesced |-> FALSE]]
            /\ exit' = NoExit
    /\ UNCHANGED <<store, clock>>

\* Mutant of NextPos: the iterator steps over every other reminder.
NextPosSkipping == IF pos + 1 >= Len(cfg) THEN 1 ELSE pos + 2

NextPos == IF pos >= Len(cfg) THEN 1 ELSE pos + 1

\* The occurrences of reminder i's schedule that have passed between its last
\* tick and the clock reading `now` (none before its first tick).
PassedSince(i, now) ==
    IF hist[i].lastTick = None THEN {}
    ELSE {t \in Occurrences(cfg[i].schedule) :
            Earliest(hist[i].lastTick) < t /\ t <= now}

\* Mutant of Detect: the priming tick caches the next occurrence.
DetectPrimeNext(r, now) ==
    LET schedule == Candidate(r.schedule, now) IN
    IF r.upcoming = None
    THEN [upcoming |-> Nth(Upcoming(r.schedule, now), 0), fire |-> FALSE]
    ELSE IF r.upcoming # schedule
    THEN [upcoming |-> schedule, fire |-> TRUE]
    ELSE [upcoming |-> r.upcoming, fire |-> FALSE]

\* Mutant of Detect: every tick of a primed reminder fires.
DetectAlways(r, now) ==
    LET schedule == Candidate(r.schedule, now) IN
    IF r.upcoming = None
    THEN [upcoming |-> schedule, fire |-> FALSE]
    ELSE [upcoming |-> schedule, fire |-> TRUE]

\* Mutant of Detect: no priming branch, an absent cache compares unequal.
DetectNoPrime(r, now) ==
    LET schedule == Candidate(r.schedule, now) IN
    IF r.upcoming # schedule
    THEN [upcoming |-> schedule, fire |-> TRUE]
    ELSE [upcoming |-> r.upcoming, fire |-> FALSE]

\* Mutant of Detect: a firing tick leaves the cache as it was.
DetectStale(r, now) ==
    LET schedule == Candidate(r.schedule, now) IN
    IF r.upcoming = None
    THEN [upcoming |-> schedule, fire |-> FALSE]
    ELSE IF r.upcoming # schedule
    THEN [upcoming |-> r.upcoming, fire |-> TRUE]
    ELSE [upcoming |-> r.upcoming, fire |-> FALSE]

\* Mutant of Detect: an absent candidate is skipped, the reminder untouched.
DetectGuarded(r, now) ==
    LET schedule == Candidate(r.schedule, now) IN
    IF schedule = None
    THEN [upcoming |-> r.upcoming, fire |-> FALSE]
    ELSE IF r.upcoming = None
    THEN [upcoming |-> schedule, fire |-> FALSE]
    ELSE IF r.upcoming # schedule
    THEN [upcoming |-> schedule, fire |-> TRUE]
    ELSE [upcoming |-> r.upcoming, fire |-> FALSE]

\* Lines 179-183: one reminder's transition check at clock reading `now`:
\* the new cached value and whether a notification is due.
Detect(r, now) ==
    LET schedule == Candidate(r.schedule, now) IN
    IF r.upcoming = None
    THEN [upcoming |-> schedule, fire |-> FALSE]
    ELSE IF r.upcoming # schedule
    THEN [upcoming |-> schedule, fire |-> TRUE]
    ELSE [upcoming |-> r.upcoming, fire |-> FALSE]

\* The history of reminder `pos` after a tick of it at the clock's reading.
Ticked ==
    [hist EXCEPT
       ![pos].lastTick = Some(clock),
       ![pos].primedAt = IF hist[pos].primedAt = None THEN Some(clock) ELSE @,
       ![pos].coalesced = @ \/ Cardinality(PassedSince(pos, clock)) >= 2]

\* Mutant of Tick: the candidate is written to every reminder of the vector.
TickWritesAll ==
    /\ mode = "watch"
    /\ pc = "loop"
    /\ pos <= Len(cfg)
    /\ LET d == Detect(cfg[pos], clock) IN
        /\ cfg' = [i \in 1..Len(cfg) |-> [cfg[i] EXCEPT !.upcoming = d.upcoming]]
        /\ hist' = Ticked
        /\ IF d.fire
           THEN pc' = "show" /\ pos' = pos
           ELSE pc' = "loop" /\ pos' = NextPos
    /\ UNCHANGED <<store, clock, mode, notes, cmd, exit, out>>

\* Mutant of Tick: the loop saves the configuration, cached values included,
\* after each reminder.
TickPersisting ==
    /\ mode = "watch"
    /\ pc = "loop"
    /\ pos <= Len(cfg)
    /\ LET d == Detect(cfg[pos], clock) IN
        /\ cfg' = [cfg EXCEPT ![pos].upcoming = d.upcoming]
        /\ store' = cfg'
        /\ hist' = Ticked
        /\ IF d.fire
           THEN pc' = "show" /\ pos' = pos
           ELSE pc' = "loop" /\ pos' = NextPos
    /\ UNCHANGED <<clock, mode, notes, cmd, exit, out>>

\* One pass of the body of the for loop up to the notification call.
Tick ==
    /\ mode = "watch"
    /\ pc = "loop"
    /\ pos <= Len(cfg)
    /\ LET d == Detect(cfg[pos], clock) IN
        /\ cfg' = [cfg EXCEPT ![pos].upcoming = d.upcoming]
        /\ hist' = Ticked
        /\ IF d.fire
           THEN pc' = "show" /\ pos' = pos
           ELSE pc' = "loop" /\ pos' = NextPos
    /\ UNCHANGED <<store, clock, mode, notes, cmd, exit, out>>

\* The notification the loop is about to show, lines 188-190.
Note ==
    [summary |-> cfg[pos].summary, body |-> cfg[pos].description]

\* The process ends: its memory is gone.
Exited(code, err) ==
    /\ mode' = "idle"
    /\ pc' = "loop"
    /\ cfg' = <<>>
    /\ pos' = 1
    /\ notes' = <<>>
    /\ hist' = <<>>
    /\ exit' = [code |-> code, err |-> err]

\* Lines 188-191: show() succeeds and the loop goes on.
ShowOk ==
    /\ mode = "watch"
    /\ pc = "show"
    /\ notes' = [notes EXCEPT ![pos] = Append(@, Note)]
    /\ pc' = "loop"
    /\ pos' = NextPos
    /\ UNCHANGED <<store, clock, mode, cfg, hist, cmd, exit, out>>

\* Mutant of ShowFail: the error is ignored and the loop goes on.
ShowFailIgnored ==
    /\ mode = "watch"
    /\ pc = "show"
    /\ pc' = "loop"
    /\ pos' = NextPos
    /\ UNCHANGED <<store, clock, mode, cfg, notes, hist, cmd, exit, out>>

\* Line 191: show() fails and `?` returns the error from main.
ShowFail ==
    /\ mode = "watch"
    /\ pc = "show"
    /\ Exited(1, "NotificationDeliveryError")
    /\ UNCHANGED <<store, clock, cmd, out>>

\* Mutant of Interrupt: the signal is acted on only between two reminders,
\* never while a notification call is due.
InterruptDeferred ==
    /\ mode = "watch"
    /\ pc = "loop"
    /\ Exited(0, "none")
    /\ UNCHANGED <<store, clock, cmd, out>>

\* Line 176: the interrupt handler exits the process with code 0.
Interrupt ==
    /\ mode = "watch"
    /\ Exited(0, "none")
    /\ UNCHANGED <<store, clock, cmd, out>>

\* Wall-clock time passes, a second at a time: the readings of Local taken
\* by successive ticks never decrease, and any number of seconds can pass
\* between two ticks.
Advance ==
    /\ clock < MaxTime
    /\ clock' = clock + 1
    /\ UNCHANGED <<store, mode, pc, cfg, pos, notes, hist, cmd, exit, out>>

\* Lines 178-193 as one step: the for loop over the vector c taken in the
\* order `order` (a sequence of indices of c) from its k-th element on, every
\* reminder reading the time `now`; `failing` are the reminders whose
\* notification call fails.  The result: the reminders whose notification
\* call was made and the reminders the loop reached.
RECURSIVE PassFrom(_, _, _, _, _)
PassFrom(c, order, k, now, failing) ==
    IF k > Len(order) THEN [fired |-> {}, ticked |-> {}]
    ELSE LET i == order[k]
             d == Detect(c[i], now)
         IN  IF d.fire /\ i \in failing
             THEN [fired |-> {i}, ticked |-> {i}]
             ELSE LET rest == PassFrom(c, order, k + 1, now, failing)
                  IN  [fired |-> (IF d.fire THEN {i} ELSE {}) \cup rest.fired,
                       ticked |-> {i} \cup rest.ticked]

Pass(c, order, now, failing) == PassFrom(c, order, 1, now, failing)

Next ==
    \/ Add
    \/ List
    \/ Remove
    \/ StartWatch
    \/ Tick
    \/ ShowOk
    \/ ShowFail
    \/ Interrupt
    \/ Advance

Spec == Init /\ [][Next]_vars

\* The running process is never starved nor blocked: the loop of lines
\* 177-194 has no wait, so its next tick is taken, and the notification call
\* of lines 188-191 returns, with success or with an error.
FairSpec == Spec /\ WF_vars(Tick) /\ WF_vars(ShowOk \/ ShowFail)

\* ------------------------------------------------------------- the claims

\* The loop is at the notification call of reminder i.
Pending(i) == mode = "watch" /\ pc = "show" /\ pos = i

\* The notifications emitted for reminder i: those shown and the one the
\* loop is showing.
Emitted(i) == Len(notes[i]) + (IF Pending(i) THEN 1 ELSE 0)

Primed(i) == hist[i].primedAt # None

PrimedAt(i) == Earliest(hist[i].primedAt)

LastTick(i) == Earliest(hist[i].lastTick)

\* The occurrences of reminder i's schedule that passed after its priming
\* tick and up to its last tick.
Passed(i) ==
    {t \in Occurrences(cfg[i].schedule) : PrimedAt(i) < t /\ t <= LastTick(i)}

\* The n-th (from 0) occurrence of reminder i's schedule after its priming.
OccAfterPriming(i, n) == Nth(Upcoming(cfg[i].schedule, PrimedAt(i)), n)

\* C1 (exactly once per boundary): a primed reminder whose schedule has the
\* occurrences T1 < T2 < T3 after its priming tick has emitted nothing and
\* caches T2 while its ticks stay before T1; once a tick read a time from T1
\* on and before T2 it has emitted exactly one notification, carrying its
\* summary and description, and it caches T3.
ExactlyOncePerBoundary ==
    mode = "watch" =>
        \A i \in 1..Len(cfg) :
            (Primed(i) /\ OccAfterPriming(i, 2) # None) =>
                LET T1 == Earliest(OccAfterPriming(i, 0))
                    T2 == Earliest(OccAfterPriming(i, 1))
                IN  /\ LastTick(i) < T1 =>
                        /\ Emitted(i) = 0
                        /\ cfg[i].upcoming = Some(T2)
                    /\ (T1 <= LastTick(i) /\ LastTick(i) < T2) =>
                        /\ Emitted(i) = 1
                        /\ cfg[i].upcoming = OccAfterPriming(i, 2)
                        /\ \A k \in 1..Len(notes[i]) :
                              /\ notes[i][k].summary = cfg[i].summary
                              /\ notes[i][k].body = cfg[i].description

\* Witness of C1: a reminder primed before T1 and ticked after it has shown
\* its one notification.
ExactlyOncePerBoundaryWitness ==
    /\ mode = "watch"
    /\ \E i \in 1..Len(cfg) :
          /\ Primed(i)
          /\ OccAfterPriming(i, 2) # None
          /\ Earliest(OccAfterPriming(i, 0)) <= LastTick(i)
          /\ LastTick(i) < Earliest(OccAfterPriming(i, 1))
          /\ Len(notes[i]) = 1

\* C2 as stated (exactly once per occurrence transition): after its priming
\* tick a reminder has emitted as many notifications as occurrences of its
\* schedule have passed, also when several pass between two of its ticks.
OncePerOccurrence ==
    mode = "watch" =>
        \A i \in 1..Len(cfg) :
            Primed(i) => Emitted(i) = Cardinality(Passed(i))

\* C2 as amended: a reminder never emits more notifications than
\* occurrences have passed since its priming tick, and it emits exactly as
\* many as long as no two occurrences passed between two consecutive ticks
\* of it and its schedule still has an occurrence after its last tick.
AtMostOncePerOccurrence ==
    mode = "watch" =>
        \A i \in 1..Len(cfg) :
            Primed(i) =>
                /\ Emitted(i) <= Cardinality(Passed(i))
                /\ (~hist[i].coalesced
                        /\ Upcoming(cfg[i].schedule, LastTick(i)) # {}) =>
                       Emitted(i) = Cardinality(Passed(i))

\* Witness of C2: in one run, a reminder whose ticks met every occurrence
\* has shown two notifications for two occurrences, and another one, for
\* which two occurrences passed between two ticks, has emitted fewer
\* notifications than occurrences have passed.
AtMostOncePerOccurrenceWitness ==
    /\ mode = "watch"
    /\ \E i, j \in 1..Len(cfg) :
          /\ Primed(i) /\ Primed(j)
          /\ hist[i].coalesced
          /\ Emitted(i) >= 1
          /\ Emitted(i) < Cardinality(Passed(i))
          /\ ~hist[j].coalesced
          /\ Cardinality(Passed(j)) = 2
          /\ Len(notes[j]) = 2

\* C3 (priming): a reminder not ticked yet has no cached value and has
\* emitted nothing; a reminder whose only ticks so far read the time of its
\* priming tick caches the candidate of that time, the second occurrence
\* after it, and has emitted nothing, whatever occurrences preceded it.
Priming ==
    mode = "watch" =>
        \A i \in 1..Len(cfg) :
            /\ ~Primed(i) => (cfg[i].upcoming = None /\ Emitted(i) = 0)
            /\ (Primed(i) /\ LastTick(i) = PrimedAt(i)) =>
                  /\ cfg[i].upcoming = Nth(Upcoming(cfg[i].schedule, PrimedAt(i)), 1)
                  /\ Emitted(i) = 0

\* Witness of C3: a reminder primed after occurrences of its schedule had
\* already passed caches an instant and has emitted nothing.
PrimingWitness ==
    /\ mode = "watch"
    /\ \E i \in 1..Len(cfg) :
          /\ Primed(i)
          /\ LastTick(i) = PrimedAt(i)
          /\ \E t \in Occurrences(cfg[i].schedule) : 0 < t /\ t <= PrimedAt(i)
          /\ cfg[i].upcoming # None
          /\ Emitted(i) = 0

\* C4 (no spurious fire): a tick of a primed reminder that finds that no
\* occurrence of its schedule has passed since its previous tick (no time
\* elapsed included) emits no notification and leaves the cache unchanged.
NoSpuriousFire ==
    [][(Tick /\ Primed(pos) /\ PassedSince(pos, clock) = {}) =>
         /\ pc' = "loop"
         /\ notes' = notes
         /\ cfg'[pos].upcoming = cfg[pos].upcoming]_vars

\* Witness of C4: a primed reminder was ticked again later, before the next
\* occurrence of its schedule; it has emitted nothing and its cache is the
\* one of its priming tick.
NoSpuriousFireWitness ==
    /\ mode = "watch"
    /\ \E i \in 1..Len(cfg) :
          /\ Primed(i)
          /\ PrimedAt(i) < LastTick(i)
          /\ Passed(i) = {}
          /\ Emitted(i) = 0
          /\ cfg[i].upcoming # None
          /\ cfg[i].upcoming = OccAfterPriming(i, 1)

\* C5 as stated (a delivery failure does not abort the loop): the step in
\* which a notification call fails leaves the loop running, on to the next
\* reminder of the store.
DeliveryFailureKeepsLooping ==
    [][ShowFail => (mode' = "watch" /\ pc' = "loop" /\ pos' = NextPos)]_vars

\* C5 as amended (a delivery failure ends the watch loop): the loop goes
\* on past a notification call only when the call has shown the
\* notification; a failed call ends the process at that call with a
\* non-zero exit code, the reminders after it unvisited and the store as it
\* was.
DeliveryFailureEndsLoop ==
    [][/\ (mode = "watch" /\ pc = "show" /\ mode' = "watch" /\ pc' = "loop") =>
            Len(notes'[pos]) = Len(notes[pos]) + 1
       /\ (mode = "watch" /\ exit'.err = "NotificationDeliveryError") =>
            /\ pc = "show"
            /\ mode' = "idle"
            /\ exit'.code # 0
            /\ store' = store]_vars

\* Witness of C5: a watch loop over two or more reminders has been ended by
\* a failed notification call.
DeliveryFailureEndsLoopWitness ==
    /\ mode = "idle"
    /\ exit = [code |-> 1, err |-> "NotificationDeliveryError"]
    /\ cmd.name = "watch"
    /\ Len(store) >= 2

\* The sequences that list every index of 1..n once.
Orders(n) ==
    {[k \in 1..n |-> f[k]] : f \in Permutations(1..n)}

\* The reminders of the running loop that a tick at the clock's reading
\* finds due.
Due == {i \in 1..Len(cfg) : Detect(cfg[i], clock).fire}

\* Every reminder but the one the loop is at keeps its cache, its
\* notifications and its history.
OthersUntouched ==
    (mode = "watch" /\ mode' = "watch") =>
        \A j \in 1..Len(cfg) :
            j # pos => (cfg'[j] = cfg[j] /\ notes'[j] = notes[j] /\ hist'[j] = hist[j])

ExhaustedTick == Tick /\ Nth(Upcoming(cfg[pos].schedule, clock), 1) = None

RemoveOutOfRange ==
    [][(Remove /\ LoadOk(store) /\ cmd'.id >= Len(store)) =>
         /\ exit'.err = "IndexOutOfRange"
         /\ exit'.code # 0
         /\ store' = store]_vars

\* Witness of C8: a remove on a store that is not empty, with an index past
\* its end, has failed.
RemoveOutOfRangeWitness ==
    /\ mode = "idle"
    /\ cmd.name = "remove"
    /\ Len(store) >= 1
    /\ cmd.id >= Len(store)
    /\ exit = [code |-> 101, err |-> "IndexOutOfRange"]

\* C9 (removal reindexing): a remove with a valid index i prints the
\* reminder that was at position i and saves a store one shorter, in which
\* the positions below i are as before and every reminder that was at a
\* position j > i is at j - 1; a list prints every reminder of the store
\* tagged with its position.
RemovalReindexing ==
    [][/\ (Remove /\ LoadOk(store) /\ cmd'.id < Len(store)) =>
            /\ exit'.code = 0
            /\ out' = <<store[cmd'.id + 1]>>
            /\ Len(store') = Len(store) - 1
            /\ \A j \in 1..Len(store') :
                  store'[j] = IF j - 1 < cmd'.id THEN store[j] ELSE store[j + 1]
       /\ (List /\ LoadOk(store)) =>
            /\ Len(out') = Len(store)
            /\ \A j \in 1..Len(store) :
                  out'[j] = [store[j] EXCEPT !.id = Some(j - 1)]]_vars

\* Witness of C9: position 1 of a store of three different reminders has
\* been removed.
RemovalReindexingWitness ==
    /\ mode = "idle"
    /\ cmd.name = "remove"
    /\ cmd.id = 1
    /\ exit.code = 0
    /\ Len(store) = 2
    /\ Len(out) = 1
    /\ store[1] # store[2]
    /\ out[1] # store[1]
    /\ out[1] # store[2]

\* C10 (the cache is never persisted): no reminder of the configuration
\* file carries an upcoming value, and no step of a running watch loop
\* changes the file.
UpcomingNeverPersisted ==
    /\ [](\A i \in 1..Len(store) : store[i].upcoming = None)
    /\ [][mode = "watch" => store' = store]_vars

\* Witness of C10: a running loop caches an instant for a reminder and has
\* shown a notification for it.
UpcomingNeverPersistedWitness ==
    /\ mode = "watch"
    /\ \E i \in 1..Len(cfg) :
          /\ cfg[i].upcoming # None
          /\ Len(notes[i]) >= 1
          /\ store[i].upcoming = None

ListMutatesNothing ==
    [][List => /\ store' = store
               /\ cmd.name = "list" => (out' = out /\ exit' = exit)]_vars

\* Witness of C12: a list has printed a store of two or more reminders,
\* tagged, and the store has no tags.
ListMutatesNothingWitness ==
    /\ mode = "idle"
    /\ cmd.name = "list"
    /\ exit.code = 0
    /\ Len(out) >= 2
    /\ Len(store) = Len(out)
    /\ \A j \in 1..Len(store) : store[j].id = None /\ out[j].id = Some(j - 1)
\* C13 (a schedule that does not parse persists nothing): an add whose
\* schedule expression does not parse ends with a non-zero code and leaves
\* the configuration file as it was; and when a schedule of the file does
\* not parse, every invocation (add, list, remove, watch) ends with a
\* non-zero code, prints no reminder, changes nothing in the file and starts
\* no loop.
ParseFailurePersistsNothing ==
    [][/\ (Add /\ ~ParseOk(cmd'.schedule)) =>
            /\ exit'.code # 0
            /\ store' = store
            /\ out' = <<>>
       /\ /\ Add \/ List \/ Remove \/ StartWatch
          /\ \E i \in 1..Len(store) : ~ParseOk(store[i].schedule)
          => /\ exit'.code # 0
             /\ store' = store
             /\ out' = <<>>
             /\ mode' = "idle"]_vars

\* Witness of C13: an add with a schedule that does not parse has failed on
\* a store that loads and has reminders.
ParseFailurePersistsNothingWitness ==
    /\ mode = "idle"
    /\ cmd.name = "add"
    /\ ~ParseOk(cmd.schedule)
    /\ exit.code # 0
    /\ Len(store) >= 1
    /\ LoadOk(store)
\* C14 (restart re-priming): whenever a watch loop starts, after whatever
\* invocations and loops came before and however much time passed, no
\* reminder has a cached value or a notification; and the first tick of a
\* reminder in a loop emits no notification.
RestartRepriming ==
    [][/\ (StartWatch /\ mode' = "watch") =>
            \A i \in 1..Len(cfg') :
                cfg'[i].upcoming = None /\ notes'[i] = <<>>
       /\ (Tick /\ hist[pos].lastTick = None) =>
            /\ pc' = "loop"
            /\ notes' = notes]_vars

\* Witness of C14: a loop has ticked every reminder of a store of two or
\* more for the first time, each after two or more occurrences of its
\* schedule had passed unobserved, and has emitted nothing.
RestartReprimingWitness ==
    /\ mode = "watch"
    /\ Len(cfg) >= 2
    /\ \A i \in 1..Len(cfg) :
          /\ Primed(i)
          /\ LastTick(i) = PrimedAt(i)
          /\ Cardinality({t \in Occurrences(cfg[i].schedule) :
                            0 < t /\ t <= PrimedAt(i)}) >= 2
          /\ Emitted(i) = 0
\* C15 as stated (interrupt handling): a running loop can be interrupted
\* at every point; the loop ends by an interrupt only, so the step that
\* ends it ends the process with code 0; and the configuration file is then
\* what the loop loaded.
OnlyInterruptEndsLoop ==
    /\ [](mode = "watch" => (ENABLED Interrupt /\ StorePath(cfg) = store))
    /\ [][(mode = "watch" /\ mode' = "idle") =>
            (exit' = [code |-> 0, err |-> "none"] /\ store' = store)]_vars

\* C15 as amended: a running loop can be interrupted at every point, the
\* point between a cache update and its notification call included; an
\* interrupt ends the process with code 0; the only other step that ends
\* the loop is a failed notification call, with a non-zero code; and in
\* both cases the configuration file is what the loop loaded.
InterruptHandling ==
    /\ [](mode = "watch" => (ENABLED Interrupt /\ StorePath(cfg) = store))
    /\ [][/\ Interrupt =>
                (mode' = "idle" /\ exit' = [code |-> 0, err |-> "none"])
          /\ (mode = "watch" /\ mode' = "idle") =>
                /\ store' = store
                /\ \/ exit' = [code |-> 0, err |-> "none"]
                   \/ pc = "show" /\ exit'.code # 0]_vars

\* Witness of C15: a loop over a store with reminders has been interrupted.
InterruptHandlingWitness ==
    /\ mode = "idle"
    /\ cmd.name = "watch"
    /\ exit = [code |-> 0, err |-> "none"]
    /\ Len(store) >= 1
\* C16 (poll-loop coverage): a loop starts at the first reminder; a tick
\* is applied to the reminder the loop is at, reads the clock, and is
\* followed by that reminder's notification call or by the next reminder
\* in store order, the first one after the last; the loop leaves a
\* reminder only ticked and only for the next; and, the process being
\* scheduled,
\* every reminder is again and again ticked at the clock's reading for as
\* long as the process runs.
PollLoopCoverage ==
    /\ []((mode = "watch" /\ Len(cfg) >= 1) => pos \in 1..Len(cfg))
    /\ [][/\ (StartWatch /\ mode' = "watch") => (pos' = 1 /\ pc' = "loop")
          /\ Tick =>
                /\ hist'[pos].lastTick = Some(clock)
                /\ \A j \in 1..Len(cfg) : j # pos => hist'[j] = hist[j]
                /\ \/ pc' = "show" /\ pos' = pos
                   \/ pc' = "loop" /\ pos' = (pos % Len(cfg)) + 1
          /\ ShowOk => (pc' = "loop" /\ pos' = (pos % Len(cfg)) + 1)
          /\ (mode = "watch" /\ mode' = "watch" /\ pos' # pos) =>
                /\ hist'[pos].lastTick # None
                /\ pos' = (pos % Len(cfg)) + 1]_vars
    /\ []<>(\/ mode # "watch"
            \/ \A i \in 1..Len(cfg) : hist[i].lastTick = Some(clock))

\* Witness of C16: the loop is back at the first of three reminders, every
\* one of which it has ticked at two or more clock readings.
PollLoopCoverageWitness ==
    /\ mode = "watch"
    /\ pc = "loop"
    /\ pos = 1
    /\ Len(cfg) = 3
    /\ \A i \in 1..Len(cfg) : Primed(i) /\ LastTick(i) > PrimedAt(i)
\* C17 (cache equals candidate): a reminder that has been ticked caches the
\* second occurrence of its schedule strictly after the clock reading of
\* its last tick (nothing, when the schedule has no such occurrence),
\* whichever branch that tick took.
CacheEqualsCandidate ==
    mode = "watch" =>
        \A i \in 1..Len(cfg) :
            Primed(i) =>
                cfg[i].upcoming = Nth(Upcoming(cfg[i].schedule, LastTick(i)), 1)

\* Witness of C17: a reminder was primed, has fired, and was last ticked
\* two or more seconds after its priming with no occurrence passed since;
\* it caches an instant other than the one it was primed with.
CacheEqualsCandidateWitness ==
    /\ mode = "watch"
    /\ \E i \in 1..Len(cfg) :
          /\ Primed(i)
          /\ Len(notes[i]) >= 1
          /\ ~Pending(i)
          /\ PassedSince(i, clock) = {}
          /\ LastTick(i) > PrimedAt(i) + 1
          /\ cfg[i].upcoming # None
          /\ cfg[i].upcoming # OccAfterPriming(i, 1)
\* The schedules without a year field: they have occurrences for ever.
Unbounded(expr) == expr \in {EverySecond, EveryTwo}

\* C18 (monotone cache): the clock never going back, a tick of a reminder
\* with an unbounded schedule caches an instant; when the reminder had no
\* cached instant the tick emits no notification; when it had one, the new
\* instant is not earlier, and the tick emits a notification exactly when
\* the new instant is later.
MonotoneCache ==
    /\ [][clock' >= clock]_vars
    /\ [][(Tick /\ Unbounded(cfg[pos].schedule)) =>
            /\ cfg'[pos].upcoming # None
            /\ IF cfg[pos].upcoming = None
               THEN pc' = "loop"
               ELSE LET old == Earliest(cfg[pos].upcoming)
                        new == Earliest(cfg'[pos].upcoming)
                    IN  /\ new >= old
                        /\ pc' = "show" <=> new > old]_vars

\* Witness of C18: a reminder with an unbounded schedule has fired twice or
\* more and was ticked later with no occurrence passed; its cached instant
\* is two or more seconds after the one it was primed with.
MonotoneCacheWitness ==
    /\ mode = "watch"
    /\ \E i \in 1..Len(cfg) :
          /\ Unbounded(cfg[i].schedule)
          /\ Primed(i)
          /\ Len(notes[i]) >= 2
          /\ ~Pending(i)
          /\ PassedSince(i, clock) = {}
          /\ Earliest(cfg[i].upcoming) >= Earliest(OccAfterPriming(i, 1)) + 2

=============================================================================
